---- MODULE Spec2Model ----
(***************************************************************************)
(* The AutoStream conversational agent: one conversation thread driven      *)
(* through the LangGraph workflow of agent/graph.py.  The thread's state is *)
(* the checkpointed channel values of AgentState; one webhook call is one   *)
(* turn: the input is written to the channels, then the nodes run one after *)
(* the other, each node's returned dict being merged into the state, until  *)
(* a conditional edge leads to END.                                         *)
(*                                                                         *)
(* A Python str is a sequence of one-character strings.  The fixed texts of *)
(* the replies are single tokens of such a sequence, so a reply built with  *)
(* an f-string has the interpolated value as a contiguous subsequence.      *)
(***************************************************************************)
EXTENDS Integers, Sequences, FiniteSets, TLC

(***************************************************************************)
(* Python str operations                                                    *)
(***************************************************************************)
LowerChars == <<"a","b","c","d","e","f","g","h","i","j","k","l","m","n","o","p","q","r","s","t","u","v","w","x","y","z">>

UpperChars == <<"A","B","C","D","E","F","G","H","I","J","K","L","M","N","O","P","Q","R","S","T","U","V","W","X","Y","Z">>

LowerChar(c) ==
    IF \E i \in DOMAIN UpperChars : UpperChars[i] = c
    THEN LowerChars[CHOOSE i \in DOMAIN UpperChars : UpperChars[i] = c]
    ELSE c

UpperChar(c) ==
    IF \E i \in DOMAIN LowerChars : LowerChars[i] = c
    THEN UpperChars[CHOOSE i \in DOMAIN LowerChars : LowerChars[i] = c]
    ELSE c

\* str.lower()
Lower(s) == [i \in 1..Len(s) |-> LowerChar(s[i])]

\* str.capitalize(): first character upper-cased, the rest lower-cased
Capitalize(s) == [i \in 1..Len(s) |-> IF i = 1 THEN UpperChar(s[i]) ELSE LowerChar(s[i])]

IsSpace(c) == c = " "

\* str.strip()
RECURSIVE LStrip(_)
LStrip(s) == IF s # <<>> /\ IsSpace(Head(s)) THEN LStrip(Tail(s)) ELSE s

RECURSIVE RStrip(_)
RStrip(s) == IF s # <<>> /\ IsSpace(s[Len(s)]) THEN RStrip(SubSeq(s, 1, Len(s) - 1)) ELSE s

Strip(s) == RStrip(LStrip(s))

\* str.find(sub) + 1: the first position of sub in s, 0 when there is none
Find(sub, s) ==
    LET hits == {i \in 1..(Len(s) - Len(sub) + 1) : SubSeq(s, i, i + Len(sub) - 1) = sub}
    IN  IF hits = {} THEN 0 ELSE CHOOSE i \in hits : \A j \in hits : i <= j

\* sub in s
Contains(sub, s) == Find(sub, s) # 0

\* any(keyword in s for keyword in keywords)
AnyIn(keywords, s) == \E k \in DOMAIN keywords : Contains(keywords[k], s)

\* s.split(sep)[-1]
RECURSIVE SplitLast(_, _)
SplitLast(s, sep) ==
    LET i == Find(sep, s)
    IN  IF i = 0 THEN s ELSE SplitLast(SubSeq(s, i + Len(sep), Len(s)), sep)

\* s.replace(old, "")
RECURSIVE Remove(_, _)
Remove(s, old) ==
    LET i == Find(old, s)
    IN  IF i = 0 THEN s
        ELSE SubSeq(s, 1, i - 1) \o Remove(SubSeq(s, i + Len(old), Len(s)), old)

\* s.split(): the whitespace-delimited words of s
RECURSIVE Split(_)
Split(s) ==
    LET t == LStrip(s)
        sp == {i \in 1..Len(t) : IsSpace(t[i])}
        e == IF sp = {} THEN Len(t) + 1 ELSE CHOOSE i \in sp : \A j \in sp : i <= j
    IN  IF t = <<>> THEN <<>>
        ELSE <<SubSeq(t, 1, e - 1)>> \o Split(SubSeq(t, e, Len(t)))

\* Python truthiness of an Optional[str]
NoneVal == <<"None">>

Truthy(v) == v # NoneVal /\ v # <<>>

\* None as the value of waiting_for
None == "None"

\* Python truthiness of waiting_for: neither None nor the empty string
IsSet(w) == w # None /\ w # ""

(***************************************************************************)
(* agent/nodes.py: the keyword lists of the intent classifier              *)
(***************************************************************************)
high_intent_keywords == <<
    <<"s","i","g","n"," ","u","p">>,
    <<"w","a","n","t"," ","t","o"," ","t","r","y">>,
    <<"i"," ","w","a","n","t">>,
    <<"g","e","t"," ","s","t","a","r","t","e","d">>,
    <<"p","u","r","c","h","a","s","e">>,
    <<"b","u","y">>,
    <<"s","u","b","s","c","r","i","b","e">>,
    <<"i","n","t","e","r","e","s","t","e","d"," ","i","n">>,
    <<"r","e","a","d","y"," ","t","o">>,
    <<"l","e","t","'","s"," ","g","o">>,
    <<"s","o","u","n","d","s"," ","g","o","o","d">>,
    <<"i","'","l","l"," ","t","a","k","e">> >>

inquiry_keywords == <<
    <<"h","o","w"," ","m","u","c","h">>,
    <<"p","r","i","c","e">>,
    <<"p","r","i","c","i","n","g">>,
    <<"c","o","s","t">>,
    <<"p","l","a","n">>,
    <<"f","e","a","t","u","r","e">>,
    <<"w","h","a","t"," ","i","s">>,
    <<"t","e","l","l"," ","m","e"," ","a","b","o","u","t">>,
    <<"d","o"," ","y","o","u">>,
    <<"c","a","n"," ","i">>,
    <<"s","u","p","p","o","r","t">>,
    <<"r","e","f","u","n","d">>,
    <<"c","a","n","c","e","l">>,
    <<"t","r","i","a","l">> >>

greeting_keywords == <<
    <<"h","i">>,
    <<"h","e","l","l","o">>,
    <<"h","e","y">>,
    <<"g","o","o","d"," ","m","o","r","n","i","n","g">>,
    <<"g","o","o","d"," ","a","f","t","e","r","n","o","o","n">> >>

\* a greeting has fewer words than this
GreetingMaxWords == 10

\* the labels the classifier accepts from the language model
LabelText(l) ==
    CASE l = "greeting" -> <<"g","r","e","e","t","i","n","g">>
      [] l = "inquiry" -> <<"i","n","q","u","i","r","y">>
      [] l = "high_intent" -> <<"h","i","g","h","_","i","n","t","e","n","t">>
      [] l = "unknown" -> <<"u","n","k","n","o","w","n">>

ValidIntents == {"greeting", "inquiry", "high_intent", "unknown"}

(***************************************************************************)
(* Python dicts: a dict is a function on its keys.  AgentState is a        *)
(* TypedDict whose keys have no reducer, so every channel keeps the last    *)
(* value written and a node's returned dict overwrites key by key.          *)
(***************************************************************************)
\* d.get(k, default)
Get(d, k, default) == IF k \in DOMAIN d THEN d[k] ELSE default

\* d.update(u)
Update(d, u) == [k \in DOMAIN d \cup DOMAIN u |-> IF k \in DOMAIN u THEN u[k] ELSE d[k]]

\* the channel update of one node's returned dict (agent/state.py: plain
\* annotations, last value wins)
ApplyWrites(st, writes) ==
    [k \in DOMAIN st \cup DOMAIN writes |-> IF k \in DOMAIN writes THEN writes[k] ELSE st[k]]

HumanMessage(c) == [type |-> "human", content |-> c]

AIMessage(c) == [type |-> "ai", content |-> c]

\* messages[-1].content if messages else ""
LastContent(st) ==
    LET messages == Get(st, "messages", <<>>)
    IN  IF messages # <<>> THEN messages[Len(messages)].content ELSE <<>>

Fields == <<"name", "email", "platform">>

FieldSet == {"name", "email", "platform"}

EmptyLead == [name |-> NoneVal, email |-> NoneVal, platform |-> NoneVal]

(***************************************************************************)
(* agent/nodes.py: intent_classifier_node                                   *)
(***************************************************************************)
\* a model reply that is no label taken for unknown
LabelOf_unknown_by_default(content) ==
    LET intent == Lower(Strip(content))
    IN  IF \E l \in ValidIntents : LabelText(l) = intent
        THEN CHOOSE l \in ValidIntents : LabelText(l) = intent
        ELSE "unknown"

\* the label a model reply is taken for
LabelOf(content) ==
    LET intent == Lower(Strip(content))
    IN  IF \E l \in ValidIntents : LabelText(l) = intent
        THEN CHOOSE l \in ValidIntents : LabelText(l) = intent
        ELSE "inquiry"

\* the cascade with the inquiry rule ahead of the high-intent rule
ClassifyMessage_inquiry_first(last_message, llm) ==
    LET message_lower == Lower(last_message)
    IN  IF AnyIn(inquiry_keywords, message_lower) THEN "inquiry"
        ELSE IF AnyIn(high_intent_keywords, message_lower) THEN "high_intent"
        ELSE IF AnyIn(greeting_keywords, message_lower)
                /\ Len(Split(message_lower)) < GreetingMaxWords THEN "greeting"
        ELSE IF llm.raises THEN "inquiry"
        ELSE LabelOf(llm.content)

\* the rule cascade and the model fallback; llm = [raises, content] is the
\* outcome of llm.invoke, used only when no rule matches
ClassifyMessage(last_message, llm) ==
    LET message_lower == Lower(last_message)
    IN  IF AnyIn(high_intent_keywords, message_lower) THEN "high_intent"
        ELSE IF AnyIn(inquiry_keywords, message_lower) THEN "inquiry"
        ELSE IF AnyIn(greeting_keywords, message_lower)
                /\ Len(Split(message_lower)) < GreetingMaxWords THEN "greeting"
        ELSE IF llm.raises THEN "inquiry"
        ELSE LabelOf(llm.content)

\* whether the classifier reaches llm.invoke
ClassifierUsesLLM(st) ==
    LET message_lower == Lower(LastContent(st))
    IN  /\ ~IsSet(Get(st, "waiting_for", None))
        /\ ~AnyIn(high_intent_keywords, message_lower)
        /\ ~AnyIn(inquiry_keywords, message_lower)
        /\ ~(AnyIn(greeting_keywords, message_lower)
             /\ Len(Split(message_lower)) < GreetingMaxWords)

\* the classifier without its lead-capture short-circuit
intent_classifier_node_reclassifies(st, llm) ==
    [intent |-> ClassifyMessage(LastContent(st), llm), next_action |-> "route"]

intent_classifier_node(st, llm) ==
    IF IsSet(Get(st, "waiting_for", None))
    THEN [intent |-> Get(st, "intent", "high_intent"), next_action |-> "route"]
    ELSE [intent |-> ClassifyMessage(LastContent(st), llm), next_action |-> "route"]

(***************************************************************************)
(* agent/graph.py: the routing functions                                    *)
(***************************************************************************)
\* the router dispatching on intent before it looks at waiting_for
route_by_intent_intent_first(st) ==
    LET intent == Get(st, "intent", "unknown")
    IN  IF intent = "greeting" THEN "greeting"
        ELSE IF intent = "inquiry" THEN "rag"
        ELSE IF IsSet(Get(st, "waiting_for", None)) \/ intent = "high_intent" THEN "lead_capture"
        ELSE "rag"

\* the router sending what it does not recognise to lead capture
route_by_intent_unknown_to_capture(st) ==
    LET intent == Get(st, "intent", "unknown")
    IN  IF IsSet(Get(st, "waiting_for", None)) THEN "lead_capture"
        ELSE IF intent = "greeting" THEN "greeting"
        ELSE IF intent = "inquiry" THEN "rag"
        ELSE "lead_capture"

route_by_intent(st) ==
    LET intent == Get(st, "intent", "unknown")
    IN  IF IsSet(Get(st, "waiting_for", None)) THEN "lead_capture"
        ELSE IF intent = "greeting" THEN "greeting"
        ELSE IF intent = "inquiry" THEN "rag"
        ELSE IF intent = "high_intent" THEN "lead_capture"
        ELSE "rag"

\* a router that hands on whatever next_action holds
route_next_action_passes_through(st) ==
    LET next_action == Get(st, "next_action", "end")
    IN  IF next_action = "execute_tool" THEN "tool_execution"
        ELSE IF next_action = "route" THEN "router"
        ELSE next_action

route_next_action(st) ==
    LET next_action == Get(st, "next_action", "end")
    IN  IF next_action = "execute_tool" THEN "tool_execution"
        ELSE IF next_action = "route" THEN "router"
        ELSE "end"

(***************************************************************************)
(* agent/tools.py                                                           *)
(***************************************************************************)
mock_lead_capture(name, email, platform) ==
    IF ~Truthy(name) \/ ~Truthy(email) \/ ~Truthy(platform)
    THEN <<"ERROR: Missing required fields">>
    ELSE <<"SUCCESS">>

NameIs == <<"n","a","m","e"," ","i","s">>

\* the name heuristics
ExtractName(text) ==
    LET text_lower == Lower(text)
    IN  IF Contains(NameIs, text_lower) THEN Strip(SplitLast(text, NameIs))
        ELSE IF Contains(<<"i","'","m"," ">>, text_lower) \/ Contains(<<"i"," ","a","m"," ">>, text_lower)
             THEN Strip(Remove(Remove(text_lower, <<"i","'","m">>), <<"i"," ","a","m">>))
        ELSE Strip(text)

\* the first whitespace-delimited word holding "@", else the whole text
ExtractEmail(text) ==
    LET words == Split(text)
        at == {i \in DOMAIN words : Contains(<<"@">>, words[i])}
        first == CHOOSE i \in at : \A j \in at : i <= j
        found == IF at = {} THEN <<>> ELSE Strip(words[first])
    IN  IF found # <<>> THEN found ELSE Strip(text)

\* platform_map, in insertion order
platform_map == <<
    <<  <<"y","o","u","t","u","b","e">>, <<"Y","o","u","T","u","b","e">>  >>,
    <<  <<"y","o","u","t","u","e">>, <<"Y","o","u","T","u","b","e">>  >>,
    <<  <<"y","o","u","t","u","b">>, <<"Y","o","u","T","u","b","e">>  >>,
    <<  <<"i","n","s","t","a","g","r","a","m">>, <<"I","n","s","t","a","g","r","a","m">>  >>,
    <<  <<"i","n","s","t","a">>, <<"I","n","s","t","a","g","r","a","m">>  >>,
    <<  <<"t","i","k","t","o","k">>, <<"T","i","k","T","o","k">>  >>,
    <<  <<"t","i","c","k","t","o","k">>, <<"T","i","k","T","o","k">>  >>,
    <<  <<"f","a","c","e","b","o","o","k">>, <<"F","a","c","e","b","o","o","k">>  >>,
    <<  <<"f","b">>, <<"F","a","c","e","b","o","o","k">>  >>,
    <<  <<"t","w","i","t","t","e","r">>, <<"T","w","i","t","t","e","r">>  >>,
    <<  <<"x">>, <<"T","w","i","t","t","e","r">>  >>,
    <<  <<"t","w","i","t","c","h">>, <<"T","w","i","t","c","h">>  >>,
    <<  <<"l","i","n","k","e","d","i","n">>, <<"L","i","n","k","e","d","I","n">>  >>,
    <<  <<"l","i","n","k","e","d">>, <<"L","i","n","k","e","d","I","n">>  >> >>

\* the first entry of platform_map whose key is in the text, else the text
\* capitalized
ExtractPlatform(text) ==
    LET text_lower == Strip(Lower(text))
        hits == {i \in DOMAIN platform_map : Contains(platform_map[i][1], text_lower)}
        first == CHOOSE i \in hits : \A j \in hits : i <= j
    IN  IF hits # {} THEN platform_map[first][2] ELSE Capitalize(Strip(text))

\* an extraction that fills every field it finds, whatever is waited for
extract_lead_info_unscoped(text, waiting_for) ==
    IF waiting_for \in {"name", "email", "platform"}
    THEN [name |-> ExtractName(text), email |-> ExtractEmail(text), platform |-> ExtractPlatform(text)]
    ELSE <<>>

\* the dict extract_lead_info returns: one key, the field waited for
extract_lead_info(text, waiting_for) ==
    CASE waiting_for = "name" -> [k \in {"name"} |-> ExtractName(text)]
      [] waiting_for = "email" -> [k \in {"email"} |-> ExtractEmail(text)]
      [] waiting_for = "platform" -> [k \in {"platform"} |-> ExtractPlatform(text)]
      [] OTHER -> <<>>

(***************************************************************************)
(* agent/nodes.py: lead_capture_node                                        *)
(***************************************************************************)
AskNameFirst == <<"That's great! I'd love to help you get started with the Pro plan. Can I get your name first?">>

AskName == <<"Could you please provide your name?">>

AskEmail(name) == <<"Thanks, ">> \o name \o <<"! What's your email address?">>

AskPlatform == <<"Great! Which platform do you primarily create content for? (e.g., YouTube, Instagram, TikTok)">>

\* lead_info after lead_info.update(extracted)
UpdatedLead(st) ==
    Update(Get(st, "lead_info", EmptyLead),
           extract_lead_info(LastContent(st), Get(st, "waiting_for", None)))

\* the field still missing, in the order of the if/elif chain; None when
\* all are there
\* the chain without its platform branch
NextWaiting_no_platform(lead_info) ==
    IF ~Truthy(lead_info["name"]) THEN "name"
    ELSE IF ~Truthy(lead_info["email"]) THEN "email"
    ELSE None

\* the chain testing for None only, so that an empty value counts as given
NextWaiting_none_only(lead_info) ==
    IF lead_info["name"] = NoneVal THEN "name"
    ELSE IF lead_info["email"] = NoneVal THEN "email"
    ELSE IF lead_info["platform"] = NoneVal THEN "platform"
    ELSE None

NextWaiting(lead_info) ==
    IF ~Truthy(lead_info["name"]) THEN "name"
    ELSE IF ~Truthy(lead_info["email"]) THEN "email"
    ELSE IF ~Truthy(lead_info["platform"]) THEN "platform"
    ELSE None

Question(lead_info, next_waiting) ==
    CASE next_waiting = "name" -> AskName
      [] next_waiting = "email" -> AskEmail(lead_info["name"])
      [] next_waiting = "platform" -> AskPlatform

\* a lead capture that extracts the name from the message that starts it
lead_capture_node_extracts_at_start(st) ==
    LET lead_info == Get(st, "lead_info", EmptyLead)
        waiting_for == Get(st, "waiting_for", None)
        updated == UpdatedLead(st)
        next_waiting == NextWaiting(updated)
    IN  IF waiting_for = None
        THEN [messages |-> <<AIMessage(AskNameFirst)>>,
              lead_info |-> Update(lead_info, extract_lead_info(LastContent(st), "name")),
              waiting_for |-> "name", next_action |-> "end"]
        ELSE IF next_waiting # None
        THEN [messages |-> <<AIMessage(Question(updated, next_waiting))>>,
              lead_info |-> updated, waiting_for |-> next_waiting, next_action |-> "end"]
        ELSE [lead_info |-> updated, waiting_for |-> None, next_action |-> "execute_tool"]

\* a lead capture that stops collecting when an answer gives nothing
lead_capture_node_gives_up(st) ==
    LET lead_info == Get(st, "lead_info", EmptyLead)
        waiting_for == Get(st, "waiting_for", None)
        updated == UpdatedLead(st)
        next_waiting == NextWaiting(updated)
    IN  IF waiting_for = None
        THEN [messages |-> <<AIMessage(AskNameFirst)>>, lead_info |-> lead_info,
              waiting_for |-> "name", next_action |-> "end"]
        ELSE IF next_waiting = waiting_for
        THEN [messages |-> <<AIMessage(Question(updated, next_waiting))>>,
              lead_info |-> updated, waiting_for |-> None, next_action |-> "end"]
        ELSE IF next_waiting # None
        THEN [messages |-> <<AIMessage(Question(updated, next_waiting))>>,
              lead_info |-> updated, waiting_for |-> next_waiting, next_action |-> "end"]
        ELSE [lead_info |-> updated, waiting_for |-> None, next_action |-> "execute_tool"]

lead_capture_node(st) ==
    LET lead_info == Get(st, "lead_info", EmptyLead)
        waiting_for == Get(st, "waiting_for", None)
        updated == UpdatedLead(st)
        next_waiting == NextWaiting(updated)
    IN  IF waiting_for = None
        THEN [messages |-> <<AIMessage(AskNameFirst)>>, lead_info |-> lead_info,
              waiting_for |-> "name", next_action |-> "end"]
        ELSE IF next_waiting # None
        THEN [messages |-> <<AIMessage(Question(updated, next_waiting))>>,
              lead_info |-> updated, waiting_for |-> next_waiting, next_action |-> "end"]
        ELSE [lead_info |-> updated, waiting_for |-> None, next_action |-> "execute_tool"]

(***************************************************************************)
(* agent/nodes.py: tool_execution_node, greeting_node                       *)
(***************************************************************************)
\* the list of missing fields without the line for the email
MissingReply_skips_email(name, email, platform) ==
    <<"I'm sorry, I'm missing some information. Could you please provide:\n">>
    \o (IF ~Truthy(name) THEN <<"- Your name\n">> ELSE <<>>)
    \o (IF ~Truthy(platform) THEN <<"- Your content platform\n">> ELSE <<>>)
    \o <<"\nLet's try again!">>

MissingReply(name, email, platform) ==
    <<"I'm sorry, I'm missing some information. Could you please provide:\n">>
    \o (IF ~Truthy(name) THEN <<"- Your name\n">> ELSE <<>>)
    \o (IF ~Truthy(email) THEN <<"- Your email address\n">> ELSE <<>>)
    \o (IF ~Truthy(platform) THEN <<"- Your content platform\n">> ELSE <<>>)
    \o <<"\nLet's try again!">>

ConfirmReply(name, email) ==
    <<"Perfect! I've got you all set up, ">> \o name
    \o <<". You'll receive an email at ">> \o email
    \o <<" with instructions to activate your Pro plan. Welcome to AutoStream!">>

IssueReply(result) ==
    <<"I'm sorry, there was an issue capturing your information: ">> \o result
    \o <<". Please try again later.">>

\* whether tool_execution_node gets past its validation to the call
ToolCalls(st) ==
    LET lead_info == Get(st, "lead_info", <<>>)
    IN  /\ Truthy(Get(lead_info, "name", NoneVal))
        /\ Truthy(Get(lead_info, "email", NoneVal))
        /\ Truthy(Get(lead_info, "platform", NoneVal))

\* the arguments of that call
\* the call made with the email where the name belongs
ToolArgs_swapped(st) ==
    LET lead_info == Get(st, "lead_info", <<>>)
    IN  [name |-> Get(lead_info, "email", NoneVal),
         email |-> Get(lead_info, "name", NoneVal),
         platform |-> Get(lead_info, "platform", NoneVal)]

ToolArgs(st) ==
    LET lead_info == Get(st, "lead_info", <<>>)
    IN  [name |-> Get(lead_info, "name", NoneVal),
         email |-> Get(lead_info, "email", NoneVal),
         platform |-> Get(lead_info, "platform", NoneVal)]

\* a confirmation that names the email where the name belongs
tool_execution_node_swapped(st) ==
    LET a == ToolArgs(st)
        response == IF ~ToolCalls(st) THEN MissingReply(a.name, a.email, a.platform)
                    ELSE ConfirmReply(a.email, a.name)
    IN  [messages |-> <<AIMessage(response)>>, next_action |-> "end"]

\* a registration that empties the lead once it is made
tool_execution_node_clears_lead(st) ==
    LET a == ToolArgs(st)
        response == IF ~ToolCalls(st) THEN MissingReply(a.name, a.email, a.platform)
                    ELSE ConfirmReply(a.name, a.email)
    IN  [messages |-> <<AIMessage(response)>>, lead_info |-> EmptyLead, next_action |-> "end"]

\* a registration that is made without a word
tool_execution_node_silent(st) == [next_action |-> "end"]

tool_execution_node(st) ==
    LET a == ToolArgs(st)
        result == mock_lead_capture(a.name, a.email, a.platform)
        response == IF ~ToolCalls(st) THEN MissingReply(a.name, a.email, a.platform)
                    ELSE IF result = <<"SUCCESS">> THEN ConfirmReply(a.name, a.email)
                    ELSE IssueReply(result)
    IN  [messages |-> <<AIMessage(response)>>, next_action |-> "end"]

GreetingReply == <<"Hi there! I'm here to help you learn about AutoStream, our AI-powered video editing platform for content creators. What would you like to know?">>

\* a greeting that hands the turn back to the router, as the classifier does
greeting_node_routes_on(st) == [messages |-> <<AIMessage(GreetingReply)>>, next_action |-> "route"]

\* a greeting that asks for the registration
greeting_node_executes_tool(st) ==
    [messages |-> <<AIMessage(GreetingReply)>>, next_action |-> "execute_tool"]

greeting_node(st) == [messages |-> <<AIMessage(GreetingReply)>>, next_action |-> "end"]

(***************************************************************************)
(* agent/nodes.py: rag_node and its deterministic fallback                  *)
(***************************************************************************)
\* rag/knowledge_base.json: the plans, in file order
pricing_plans == <<
    [name |-> "Basic Plan", price |-> "$29/month",
     features |-> <<"10 videos per month", "720p resolution", "Basic editing tools">>],
    [name |-> "Pro Plan", price |-> "$79/month",
     features |-> <<"Unlimited videos", "4K resolution", "AI captions",
                    "Priority rendering", "24/7 support", "Custom branding">>] >>

DefaultFallback == <<"I'd be happy to help! AutoStream offers two plans: Basic at $29/month and Pro at $79/month. Both include our AI-powered video editing tools. What would you like to know more about?">>

\* next((p for p in kb['pricing_plans'] if p['name'] == name), None)
PlansNamed(name) == SelectSeq(pricing_plans, LAMBDA p : p.name = name)

\* the first five features, one bullet each
FeatureLines(plan) ==
    LET n == IF Len(plan.features) < 5 THEN Len(plan.features) ELSE 5
    IN  [i \in 1..n |-> plan.features[i]]

PlanReply(plan, closing) ==
    <<"The ", plan.name, " is ", plan.price, ". Here are the key features:\n">>
    \o FeatureLines(plan) \o <<closing>>

RECURSIVE PlanLines(_)
PlanLines(plans) ==
    IF plans = <<>> THEN <<>>
    ELSE <<Head(plans).name, ": ", Head(plans).price>> \o PlanLines(Tail(plans))

GeneralPricingReply ==
    <<"AutoStream offers two pricing plans:\n\n">> \o PlanLines(pricing_plans)
    \o <<"\n\nBoth plans include a 14-day free trial with no credit card required. The Pro Plan includes unlimited videos, 4K resolution, AI-powered features, and 24/7 support. Would you like more details about either plan?">>

FallbackPricingKeywords == <<
    <<"p","r","i","c","e">>,
    <<"p","r","i","c","i","n","g">>,
    <<"c","o","s","t">>,
    <<"p","l","a","n">>,
    <<"h","o","w"," ","m","u","c","h">> >>

\* kb_ok: whether the knowledge base file could be read
_get_fallback_response(query, kb_ok) ==
    LET query_lower == Lower(query)
        pro == PlansNamed("Pro Plan")
        basic == PlansNamed("Basic Plan")
    IN  IF ~kb_ok THEN DefaultFallback
        ELSE IF ~AnyIn(FallbackPricingKeywords, query_lower) THEN DefaultFallback
        ELSE IF Contains(<<"p","r","o">>, query_lower) /\ pro # <<>>
             THEN PlanReply(pro[1], "\n\nThis plan is perfect for professional content creators, YouTubers, and businesses. Would you like to know more or get started?")
        ELSE IF ~Contains(<<"p","r","o">>, query_lower)
                /\ Contains(<<"b","a","s","i","c">>, query_lower) /\ basic # <<>>
             THEN PlanReply(basic[1], "\n\nWould you like to learn more about upgrading to Pro?")
        ELSE GeneralPricingReply

pricing_keywords == <<
    <<"p","r","i","c","e">>,
    <<"p","r","i","c","i","n","g">>,
    <<"c","o","s","t">>,
    <<"h","o","w"," ","m","u","c","h">>,
    <<"p","l","a","n">>,
    <<"p","r","o"," ","p","l","a","n">>,
    <<"b","a","s","i","c"," ","p","l","a","n">>,
    <<"p","r","o"," ","p","r","i","c","e">>,
    <<"b","a","s","i","c"," ","p","r","i","c","e">> >>

\* a model reply shorter than this, stripped, is replaced by the fallback
MinReplyLen == 20

\* pricing questions sent down the model path like every other question
FastPath_never(query, built, e) == FALSE

\* The environment of one rag_node call: init1 and init2 say whether
\* building the retriever succeeds at the first and at the second
\* get_retriever() (asked only while no instance exists), ctx_ok whether
\* get_context returns, llm = [raises, content] what llm.invoke does, kb_ok
\* whether the knowledge base file can be read.
FastPath(query, built, e) ==
    AnyIn(pricing_keywords, Lower(query)) /\ (built \/ e.init1)

RagInvokesLLM(query, built, e) ==
    ~FastPath(query, built, e) /\ (built \/ e.init2) /\ e.ctx_ok

\* a model reply taken as it is unless it is empty
RagReply_accepts_short(query, built, e) ==
    IF FastPath(query, built, e) THEN _get_fallback_response(query, e.kb_ok)
    ELSE IF ~RagInvokesLLM(query, built, e) \/ e.llm.raises
         THEN _get_fallback_response(query, e.kb_ok)
    ELSE IF Strip(e.llm.content) = <<>> THEN _get_fallback_response(query, e.kb_ok)
    ELSE e.llm.content

RagReply(query, built, e) ==
    IF FastPath(query, built, e) THEN _get_fallback_response(query, e.kb_ok)
    ELSE IF ~RagInvokesLLM(query, built, e) \/ e.llm.raises
         THEN _get_fallback_response(query, e.kb_ok)
    ELSE IF Strip(e.llm.content) = <<>> THEN _get_fallback_response(query, e.kb_ok)
    ELSE IF Len(Strip(e.llm.content)) < MinReplyLen THEN _get_fallback_response(query, e.kb_ok)
    ELSE e.llm.content

\* rag/retriever.py: get_retriever keeps the instance once it is built
RetrieverAfter(query, built, e) ==
    \/ built
    \/ AnyIn(pricing_keywords, Lower(query)) /\ e.init1
    \/ ~FastPath(query, built, e) /\ e.init2

\* an answer that hands the turn back to the router
rag_node_routes_on(st, built, e) ==
    [messages |-> <<AIMessage(RagReply(LastContent(st), built, e))>>, next_action |-> "route"]

rag_node(st, built, e) ==
    [messages |-> <<AIMessage(RagReply(LastContent(st), built, e))>>, next_action |-> "end"]

\* one call of an outside capability: who called what, whether it returned,
\* and what it returned (the text of a model reply, empty otherwise)
Called(by, call, ok, content) == [by |-> by, call |-> call, ok |-> ok, content |-> content]

\* whether the call falls back to _get_fallback_response after the fast path
RagFallsBack(query, built, e) ==
    ~FastPath(query, built, e) /\ RagReply(query, built, e) # e.llm.content

\* the outside calls of one rag_node call, in the order the code makes them
RagCalls(query, built, e) ==
    LET is_pricing_query == AnyIn(pricing_keywords, Lower(query))
        fast == FastPath(query, built, e)
        got == built \/ e.init2
    IN  (IF is_pricing_query
         THEN <<Called("rag", "get_retriever", built \/ e.init1, <<>>)>> ELSE <<>>)
        \o (IF fast THEN <<Called("rag", "knowledge_base", e.kb_ok, <<>>)>> ELSE <<>>)
        \o (IF ~fast THEN <<Called("rag", "get_retriever", got, <<>>)>> ELSE <<>>)
        \o (IF ~fast /\ got THEN <<Called("rag", "get_context", e.ctx_ok, <<>>)>> ELSE <<>>)
        \o (IF RagInvokesLLM(query, built, e)
            THEN <<Called("rag", "llm", ~e.llm.raises, e.llm.content)>> ELSE <<>>)
        \o (IF RagFallsBack(query, built, e)
            THEN <<Called("rag", "knowledge_base", e.kb_ok, <<>>)>> ELSE <<>>)

(***************************************************************************)
(* agent/graph.py: the compiled workflow                                    *)
(***************************************************************************)
END == "__end__"

\* the edge map each node was given in add_conditional_edges
Edges(node) ==
    CASE node = "intent_classifier" ->
            [greeting |-> "greeting", rag |-> "rag", lead_capture |-> "lead_capture"]
      [] node = "lead_capture" ->
            [end |-> END, tool_execution |-> "tool_execution", router |-> "intent_classifier"]
      [] OTHER -> [end |-> END, router |-> "intent_classifier"]

\* the key the node's conditional edge computes from the state after the node
EdgeKey(node, st) ==
    IF node = "intent_classifier" THEN route_by_intent(st) ELSE route_next_action(st)

(***************************************************************************)
(* main.py: the webhook's answer                                            *)
(***************************************************************************)
DidNotUnderstand == <<"I apologize, I didn't understand that. Could you please rephrase?">>

WebhookResponse(result) ==
    LET ai_messages == SelectSeq(Get(result, "messages", <<>>), LAMBDA m : m.type = "ai")
    IN  [response |-> IF ai_messages # <<>> THEN ai_messages[Len(ai_messages)].content
                      ELSE DidNotUnderstand,
         intent |-> Get(result, "intent", "unknown"),
         status |-> "success"]

\* HTTPException(status_code, detail): the answer FastAPI sends for it
HTTPException(status_code, detail) == [status_code |-> status_code, detail |-> detail]

\* the except clause of the webhook: str(e) goes into the detail
ErrorResponse(e) == HTTPException(500, <<"Error processing request: ">> \o e)

NoResponse == [response |-> <<>>, intent |-> "unknown", status |-> "none"]

(***************************************************************************)
(* The inputs explored                                                      *)
(***************************************************************************)
Messages == {
    <<"h","i">>,
    <<"s","i","g","n"," ","u","p",":"," ","n","a","m","e"," ","i","s"," ","J","o",","," ","j","o","@","x",".","i","o",","," ","Y","o","u","T","u","b","e">>,
    <<"p","r","i","c","e">>,
    <<"j","o","@","x",".","i","o">>,
    <<" ">> }

\* what llm.invoke may do for the classifier's prompt
ClassifierLLM ==
    {[raises |-> TRUE, content |-> <<>>]}
    \cup {[raises |-> FALSE, content |-> LabelText(l)] : l \in ValidIntents}
    \cup {[raises |-> FALSE, content |-> c] :
            c \in {<<" ","U","n","k","n","o","w","n"," ">>, <<"m","a","y","b","e">>}}

LLMText(n) == [i \in 1..n |-> "a"]

\* what llm.invoke may do for the RAG prompt
RagLLM ==
    {[raises |-> TRUE, content |-> <<>>]}
    \cup {[raises |-> FALSE, content |-> c] :
            c \in {<<>>, <<" ">>, LLMText(MinReplyLen - 1), LLMText(MinReplyLen)}}

RagEnv == [init1 : BOOLEAN, init2 : BOOLEAN, ctx_ok : BOOLEAN, kb_ok : BOOLEAN, llm : RagLLM]

\* The environments that differ for this call: a field the call does not
\* consult is held at one value, so that every outcome is explored once.
RagEnvFor(query, built) ==
    {e \in RagEnv :
        /\ (built \/ ~AnyIn(pricing_keywords, Lower(query))) => ~e.init1
        /\ (built \/ FastPath(query, built, e)) => ~e.init2
        /\ (FastPath(query, built, e) \/ ~(built \/ e.init2)) => ~e.ctx_ok
        /\ ~RagInvokesLLM(query, built, e) => e.llm = [raises |-> TRUE, content |-> <<>>]
        /\ RagReply(query, built, e) = e.llm.content => e.kb_ok}

(***************************************************************************)
(* State                                                                    *)
(***************************************************************************)
VARIABLES
    store,               \* the MemorySaver: thread_id -> the thread's last checkpoint
    tid,                 \* the thread_id of the current (or last) webhook call
    state,               \* the channel values of AgentState in the current (or last) run
    pc,                  \* "idle" between turns, else the node that runs next
    retriever_instance,  \* rag/retriever.py: whether _retriever_instance is built
    reply,               \* what the last webhook call returned
    request,             \* the message of the current (or last) webhook call
    pre,                 \* history: the thread's channels when the turn began
    path,                \* history: the nodes that ran in the current turn
    calls,               \* history: the mock_lead_capture calls of the current turn
    outside,             \* history: the other outside calls of the current turn
    stage,               \* history: how far MainThread follows the capture scenario
    resets,              \* history: the threads reset since their last turn began
    post_reset           \* history: the current turn is the first after a reset

vars == <<store, tid, state, pc, retriever_instance, reply, request, pre, path,
          calls, outside, stage, resets, post_reset>>

\* the thread_id of the specification with one thread
MainThread == "t1"

\* no thread has a checkpoint: every channel is empty
Init ==
    /\ store = <<>>
    /\ tid = MainThread
    /\ state = <<>>
    /\ pc = "idle"
    /\ retriever_instance = FALSE
    /\ reply = NoResponse
    /\ request = <<>>
    /\ pre = <<>>
    /\ path = <<>>
    /\ calls = <<>>
    /\ outside = <<>>
    /\ stage = "fresh"
    /\ resets = {}
    /\ post_reset = FALSE

\* the channels a turn is compared on
Snapshot(st) ==
    [k \in DOMAIN st \cap {"intent", "lead_info", "waiting_for", "next_action"} |-> st[k]]

\* MemorySaver.get_tuple: the checkpoint stored under the thread_id, none yet
\* for a thread that never ran
LoadCheckpoint(saver, t) == Get(saver, t, <<>>)

\* the same, under one key for every thread
SaveCheckpoint_one_key(saver, t, st) == [k \in DOMAIN saver \cup {t} |-> st]

\* MemorySaver.put: the checkpoint is stored under the thread_id of the call
SaveCheckpoint(saver, t, st) ==
    [k \in DOMAIN saver \cup {t} |-> IF k = t THEN st ELSE saver[k]]

\* whether the turn's message gave a non-empty value for the field waited for
Extracted(st, text) ==
    LET w == Get(st, "waiting_for", None)
        x == extract_lead_info(text, w)
    IN  w \in DOMAIN x /\ Truthy(x[w])

\* the capture scenario: a fresh thread, a high-intent message, then answers
\* that each give a non-empty value
NextStage(p) ==
    CASE stage = "fresh" ->
            IF Len(p) >= 2 /\ p[2] = "lead_capture" THEN "started" ELSE "off"
      [] stage \in {"started", "answered1", "answered2"} ->
            IF Len(p) >= 2 /\ p[2] = "lead_capture" /\ Extracted(pre, request)
            THEN CASE stage = "started" -> "answered1"
                   [] stage = "answered1" -> "answered2"
                   [] stage = "answered2" -> "answered3"
            ELSE "off"
      [] OTHER -> "off"

\* what a call of the webhook does once it runs: agent_graph.invoke loads the
\* thread's checkpoint, the input overwrites the messages channel, and the
\* entry node is next
StartTurn(t, m) ==
    LET loaded == LoadCheckpoint(store, t)
        input == ApplyWrites(loaded, [messages |-> <<HumanMessage(m)>>])
    IN  /\ tid' = t
        /\ request' = m
        /\ pre' = Snapshot(loaded)
        /\ state' = input
        /\ store' = SaveCheckpoint(store, t, input)
        /\ pc' = "intent_classifier"
        /\ path' = <<>>
        /\ calls' = <<>>
        /\ outside' = <<>>
        /\ reply' = NoResponse
        /\ post_reset' = (t \in resets)
        /\ resets' = resets \ {t}
        /\ UNCHANGED <<retriever_instance, stage>>

\* the same handler run by a pool of threads: a call starts at any time
Webhook_in_thread_pool(t, m) == StartTurn(t, m)

\* main.py webhook: an async handler that calls the blocking
\* agent_graph.invoke, so the event loop starts no other call before this
\* one has returned
Webhook(t, m) ==
    /\ pc = "idle"
    /\ StartTurn(t, m)

\* one node has run and returned writes: the writes are merged and saved, the
\* node's conditional edge picks the next node, and at END the webhook answers
Advance(node, writes) ==
    LET new == ApplyWrites(state, writes)
        key == EdgeKey(node, new)
        p == Append(path, node)
    IN  /\ path' = p
        /\ IF key \notin DOMAIN Edges(node)
           THEN /\ state' = state
                /\ store' = store
                /\ pc' = "idle"
                /\ reply' = ErrorResponse(<<key>>)
                /\ stage' = IF tid = MainThread THEN "off" ELSE stage
           ELSE /\ state' = new
                /\ store' = SaveCheckpoint(store, tid, new)
                /\ IF Edges(node)[key] = END
                   THEN /\ pc' = "idle"
                        /\ reply' = WebhookResponse(new)
                        /\ stage' = IF tid = MainThread THEN NextStage(p) ELSE stage
                   ELSE /\ pc' = Edges(node)[key]
                        /\ UNCHANGED <<reply, stage>>

IntentClassifier ==
    /\ pc = "intent_classifier"
    /\ \E llm \in ClassifierLLM :
          /\ Advance("intent_classifier", intent_classifier_node(state, llm))
          /\ outside' = IF ClassifierUsesLLM(state)
                        THEN Append(outside, Called("intent_classifier", "llm",
                                                    ~llm.raises, llm.content))
                        ELSE outside
    /\ UNCHANGED <<tid, retriever_instance, request, pre, calls, resets, post_reset>>

Greeting ==
    /\ pc = "greeting"
    /\ Advance("greeting", greeting_node(state))
    /\ UNCHANGED <<tid, retriever_instance, request, pre, calls, outside, resets, post_reset>>

Rag ==
    /\ pc = "rag"
    /\ \E e \in RagEnvFor(LastContent(state), retriever_instance) :
          /\ Advance("rag", rag_node(state, retriever_instance, e))
          /\ retriever_instance' = RetrieverAfter(LastContent(state), retriever_instance, e)
          /\ outside' = outside \o RagCalls(LastContent(state), retriever_instance, e)
    /\ UNCHANGED <<tid, request, pre, calls, resets, post_reset>>

LeadCapture ==
    /\ pc = "lead_capture"
    /\ Advance("lead_capture", lead_capture_node(state))
    /\ UNCHANGED <<tid, retriever_instance, request, pre, calls, outside, resets, post_reset>>

ToolExecution ==
    /\ pc = "tool_execution"
    /\ Advance("tool_execution", tool_execution_node(state))
    /\ calls' = IF ToolCalls(state) THEN Append(calls, ToolArgs(state)) ELSE calls
    /\ UNCHANGED <<tid, retriever_instance, request, pre, outside, resets, post_reset>>

Next ==
    \/ \E m \in Messages : Webhook(MainThread, m)
    \/ IntentClassifier
    \/ Greeting
    \/ Rag
    \/ LeadCapture
    \/ ToolExecution

Spec == Init /\ [][Next]_vars

(***************************************************************************)
(* The server with two threads: calls of /webhook and of /reset for either  *)
(* thread_id, in any order.                                                 *)
(***************************************************************************)
ThreadIds == {"t1", "t2"}

ServerMessages == {
    <<"h","i">>,
    <<"b","u","y">>,
    <<"c","o","s","t">> }

\* main.py reset_conversation: the handler answers with a confirmation and
\* touches neither the MemorySaver nor anything else
ResetConversation(t) ==
    /\ pc = "idle"
    /\ resets' = resets \cup {t}
    /\ UNCHANGED <<store, tid, state, pc, retriever_instance, reply, request, pre,
                    path, calls, outside, stage, post_reset>>

ResetNext ==
    \/ \E m \in ServerMessages : Webhook(MainThread, m)
    \/ ResetConversation(MainThread)
    \/ IntentClassifier
    \/ Greeting
    \/ Rag
    \/ LeadCapture
    \/ ToolExecution

ResetSpec == Init /\ [][ResetNext]_vars

\* the first thread sends every message, the second only the sign-up path
ThreadMessages(t) == IF t = MainThread THEN ServerMessages ELSE {<<"b","u","y">>}

ServerNext ==
    \/ \E t \in ThreadIds : \E m \in ThreadMessages(t) : Webhook(t, m)
    \/ IntentClassifier
    \/ Greeting
    \/ Rag
    \/ LeadCapture
    \/ ToolExecution

ServerSpec == Init /\ [][ServerNext]_vars

(***************************************************************************)
(* The routing function on every state: a second specification that draws  *)
(* the channels route_by_intent reads from every value they can hold,       *)
(* missing and unrecognised ones included, and applies the function.        *)
(***************************************************************************)
Missing == "<missing>"

\* a state dict holding the given channels; Missing leaves the key out
StateOf(intent, waiting_for, next_action) ==
    LET vals == [intent |-> intent, waiting_for |-> waiting_for, next_action |-> next_action]
    IN  [k \in {x \in DOMAIN vals : vals[x] # Missing} |-> vals[k]]

ProbeStates ==
    {StateOf(i, w, n) :
        i \in ValidIntents \cup {Missing, "other"},
        w \in FieldSet \cup {Missing, None, ""},
        n \in {Missing, "route", "end", "execute_tool", "other"}}

RouterInit ==
    /\ state \in ProbeStates
    /\ pc = "probe"
    /\ store = <<>>
    /\ tid = MainThread
    /\ retriever_instance = FALSE
    /\ reply = NoResponse
    /\ request = <<>>
    /\ pre = <<>>
    /\ path = <<>>
    /\ calls = <<>>
    /\ outside = <<>>
    /\ stage = "off"
    /\ resets = {}
    /\ post_reset = FALSE

ProbeRouteByIntent ==
    /\ pc = "probe"
    /\ pc' = route_by_intent(state)
    /\ UNCHANGED <<store, tid, state, retriever_instance, reply, request, pre, path,
                    calls, outside, stage, resets, post_reset>>

RouterNext == ProbeRouteByIntent

RouterSpec == RouterInit /\ [][RouterNext]_vars

(***************************************************************************)
(* One turn on a wide choice of messages: a specification that starts from  *)
(* the states a thread passes through on the way to a registered lead and   *)
(* sends one message, drawn from mixtures of the classifier's keywords.     *)
(***************************************************************************)
\* route_next_action applied to the drawn state
ProbeRouteNextAction ==
    /\ pc = "probe"
    /\ pc' = route_next_action(state)
    /\ path' = <<"route_next_action">>
    /\ UNCHANGED <<store, tid, state, retriever_instance, reply, request, pre, calls,
                    outside, stage, resets, post_reset>>

RoutersNext ==
    \/ ProbeRouteByIntent
    \/ ProbeRouteNextAction

\* both routing functions on every state
RoutersSpec == RouterInit /\ [][RoutersNext]_vars

Range(seq) == {seq[i] : i \in DOMAIN seq}

Join(a, b) == a \o <<" ">> \o b

\* the keyword alone, and with each of the other texts before and after it
Mixed(others, keyword) ==
    {keyword} \cup {Join(o, keyword) : o \in others} \cup {Join(keyword, o) : o \in others}

Hello == <<"h","e","l","l","o">>

Pricing == <<"p","r","i","c","i","n","g">>

ProbeMessages ==
    UNION {Mixed({Hello, Pricing, Join(Hello, Pricing)}, k) : k \in Range(high_intent_keywords)}
    \cup UNION {Mixed({Hello}, k) : k \in Range(inquiry_keywords)}
    \cup Range(greeting_keywords)
    \cup { <<"h","i"," ","t","h","e","r","e"," ","a"," ","b"," ","c"," ","d"," ","e"," ","f"," ","g"," ","h">>,
           <<" ">>,
           <<"o","k">>,
           <<"j","o","@","x",".","i","o">>,
           <<"H","i",","," ","h","o","w"," ","m","u","c","h"," ","i","s"," ","t","h","e"," ","P","r","o"," ","p","l","a","n","?">>,
           <<"H","O","W"," ","M","U","C","H">>,
           <<"b","a","s","i","c"," ","p","l","a","n"," ","p","r","i","c","i","n","g">> }

\* a model call that raises
NoReply == [raises |-> TRUE, content |-> <<>>]

\* the state one turn leaves when the turn does not pass through rag: input,
\* classifier, greeting or lead capture, tool execution if routed there
TurnResult(st, m) ==
    LET s0 == ApplyWrites(st, [messages |-> <<HumanMessage(m)>>])
        s1 == ApplyWrites(s0, intent_classifier_node(s0, NoReply))
        s2 == ApplyWrites(s1, IF route_by_intent(s1) = "greeting"
                              THEN greeting_node(s1) ELSE lead_capture_node(s1))
    IN  IF route_next_action(s2) = "tool_execution"
        THEN ApplyWrites(s2, tool_execution_node(s2))
        ELSE s2

RECURSIVE AfterTurns(_)
AfterTurns(ms) ==
    IF ms = <<>> THEN <<>>
    ELSE TurnResult(AfterTurns(SubSeq(ms, 1, Len(ms) - 1)), ms[Len(ms)])

\* a sign-up and three answers
CaptureScript == << <<"b","u","y">>, <<"h","i">>, <<"h","i">>, <<"h","i">> >>

\* no checkpoint; after a greeting; after each turn of the capture script
StartStates ==
    {AfterTurns(SubSeq(CaptureScript, 1, n)) : n \in 0..Len(CaptureScript)}
    \cup {AfterTurns(<< <<"h","i">> >>)}

TurnInit ==
    /\ state \in StartStates
    /\ store = IF state = <<>> THEN <<>> ELSE [t \in {MainThread} |-> state]
    /\ tid = MainThread
    /\ pc = "idle"
    /\ retriever_instance \in BOOLEAN
    /\ reply = NoResponse
    /\ request = <<>>
    /\ pre = <<>>
    /\ path = <<>>
    /\ calls = <<>>
    /\ outside = <<>>
    /\ stage = "off"
    /\ resets = {}
    /\ post_reset = FALSE

\* the one call of the webhook
FirstWebhook(m) ==
    /\ path = <<>>
    /\ Webhook(MainThread, m)

TurnNext ==
    \/ \E m \in ProbeMessages : FirstWebhook(m)
    \/ IntentClassifier
    \/ Greeting
    \/ Rag
    \/ LeadCapture
    \/ ToolExecution

TurnSpec == TurnInit /\ [][TurnNext]_vars

(***************************************************************************)
(* tool_execution_node on every lead: a specification that enters the node  *)
(* with each field None, empty or filled, with lead_info empty or missing,  *)
(* and with any field waited for.                                           *)
(***************************************************************************)
ToolLeads == [FieldSet -> {NoneVal, <<>>, <<"h","i">>}] \cup {<<>>}

ToolProbeStates ==
    LET base == [messages |-> << HumanMessage(<<"h","i">>) >>, intent |-> "high_intent",
                 next_action |-> "execute_tool"]
    IN  {ApplyWrites(ApplyWrites(base, IF has_lead THEN [lead_info |-> l] ELSE <<>>),
                     IF w = Missing THEN <<>> ELSE [waiting_for |-> w]) :
            l \in ToolLeads, has_lead \in BOOLEAN, w \in FieldSet \cup {Missing, None}}

ToolInit ==
    /\ state \in ToolProbeStates
    /\ store = [t \in {MainThread} |-> state]
    /\ tid = MainThread
    /\ pc = "tool_execution"
    /\ retriever_instance = FALSE
    /\ reply = NoResponse
    /\ request = <<"h","i">>
    /\ pre = Snapshot(state)
    /\ path = <<>>
    /\ calls = <<>>
    /\ outside = <<>>
    /\ stage = "off"
    /\ resets = {}
    /\ post_reset = FALSE

ToolNext == ToolExecution

ToolSpec == ToolInit /\ [][ToolNext]_vars

(***************************************************************************)
(* Properties                                                               *)
(***************************************************************************)
Lead(st) == Get(st, "lead_info", EmptyLead)

Waiting(st) == Get(st, "waiting_for", None)

AllPresent(lead_info) == \A f \in FieldSet : Truthy(lead_info[f])

Ran(node) == \E i \in DOMAIN path : path[i] = node

TurnDone == pc = "idle" /\ path # <<>>

\* C1 (lock-in): in a turn that began with waiting_for set, whatever the
\* message, the intent after the classifier and in the webhook's answer is
\* the intent stored before the turn, and the turn goes to lead_capture,
\* never to greeting or rag.
C1_LockIn ==
    (path # <<>> /\ IsSet(Waiting(pre))) =>
        /\ "intent" \in DOMAIN pre
        /\ state["intent"] = pre["intent"]
        /\ pc \notin {"greeting", "rag"}
        /\ ~Ran("greeting") /\ ~Ran("rag")
        /\ Len(path) >= 2 => path[2] = "lead_capture"
        /\ TurnDone => (Ran("lead_capture") /\ reply.intent = pre["intent"])

\* a greeting was sent while the agent waited for the email
C1_Witness ==
    /\ TurnDone
    /\ Waiting(pre) = "email"
    /\ request = <<"h","i">>
    /\ Ran("lead_capture")

\* C2 (route_by_intent): waiting_for set gives lead_capture whatever the
\* intent; otherwise greeting gives greeting, inquiry gives rag, high_intent
\* gives lead_capture and unknown gives rag.
C2_RouteByIntent ==
    pc # "probe" =>
        /\ IsSet(Waiting(state)) => pc = "lead_capture"
        /\ (~IsSet(Waiting(state)) /\ "intent" \in DOMAIN state) =>
              /\ state["intent"] = "greeting" => pc = "greeting"
              /\ state["intent"] = "inquiry" => pc = "rag"
              /\ state["intent"] = "high_intent" => pc = "lead_capture"
              /\ state["intent"] = "unknown" => pc = "rag"

\* the router was applied to a state with waiting_for set and a greeting intent
C2_Witness ==
    /\ pc = "lead_capture"
    /\ Waiting(state) = "platform"
    /\ Get(state, "intent", "unknown") = "greeting"

\* C3 (tool gating, only-if): tool_execution is the next node, or has run,
\* only with name, email and platform all non-empty in the state, and every
\* mock_lead_capture call has three non-empty arguments.
C3_ToolOnlyIfComplete ==
    /\ (pc = "tool_execution" \/ Ran("tool_execution")) => AllPresent(Lead(state))
    /\ \A i \in DOMAIN calls : AllPresent(calls[i])

\* tool_execution has run and called mock_lead_capture
C3_Witness == TurnDone /\ Ran("tool_execution") /\ calls # <<>>

\* the first field, in the order name, email, platform, that the lead lacks;
\* None when it lacks none
FirstAbsent(lead_info) ==
    LET absent == {i \in DOMAIN Fields : ~Truthy(lead_info[Fields[i]])}
    IN  IF absent = {} THEN None
        ELSE Fields[CHOOSE i \in absent : \A j \in absent : i <= j]

\* C4 (tool gating, if and only if): in a turn routed to lead_capture,
\* tool_execution runs in that turn exactly when name, email and platform
\* are all present after the lead_capture step.
C4_ToolIffComplete ==
    (TurnDone /\ Ran("lead_capture")) =>
        (Ran("tool_execution") <=> AllPresent(Lead(state)))

\* C5 (ordered questioning): when lead_capture ends a turn by asking for a
\* field, that field is the first absent field of the lead in the order
\* name, email, platform; it is never a field that is already present.
C5_AsksFirstAbsent ==
    (TurnDone /\ path[Len(path)] = "lead_capture") =>
        /\ Waiting(state) = FirstAbsent(Lead(state))
        /\ Waiting(state) \in FieldSet
        /\ ~Truthy(Lead(state)[Waiting(state)])

\* C6 (monotonic fill): a lead field that held a non-empty value when a turn
\* began holds a non-empty value at every later point of the turn.
C6_MonotonicFill ==
    \A f \in FieldSet : Truthy(Lead(pre)[f]) => Truthy(Lead(state)[f])

\* C7 (capture sequence): in a fresh thread, a high-intent message and then
\* three messages that each give a non-empty value move waiting_for through
\* None, name, email, platform, None, one step a turn; tool_execution runs in
\* the turn of the third answer and in none before it, and that turn's reply
\* is the confirmation built from the stored name and the stored email.
C7_CaptureSequence ==
    TurnDone =>
        /\ stage = "started" =>
              Waiting(pre) = None /\ Waiting(state) = "name" /\ ~Ran("tool_execution")
        /\ stage = "answered1" =>
              Waiting(pre) = "name" /\ Waiting(state) = "email" /\ ~Ran("tool_execution")
        /\ stage = "answered2" =>
              Waiting(pre) = "email" /\ Waiting(state) = "platform" /\ ~Ran("tool_execution")
        /\ stage = "answered3" =>
              /\ Waiting(pre) = "platform" /\ Waiting(state) = None
              /\ path = <<"intent_classifier", "lead_capture", "tool_execution">>
              /\ calls = <<Lead(state)>>
              /\ mock_lead_capture(Lead(state)["name"], Lead(state)["email"],
                                   Lead(state)["platform"]) = <<"SUCCESS">>
              /\ reply.status = "success"
              /\ reply.response = ConfirmReply(Lead(state)["name"], Lead(state)["email"])

\* the third answer has been given and the lead registered
C7_Witness ==
    /\ TurnDone
    /\ stage = "answered3"
    /\ Lead(state)["email"] = <<"j","o","@","x",".","i","o">>
    /\ calls # <<>>

\* C8 (first entry): lead_capture entered with waiting_for absent asks for
\* the name, sets waiting_for to name, emits next_action end and ends the
\* turn without extracting: every lead field is what it was before the turn,
\* whatever the message holds.
C8_FirstEntry ==
    (Ran("lead_capture") /\ Waiting(pre) = None) =>
        /\ TurnDone
        /\ path = <<"intent_classifier", "lead_capture">>
        /\ Waiting(state) = "name"
        /\ state["next_action"] = "end"
        /\ state["messages"] = <<AIMessage(AskNameFirst)>>
        /\ reply.response = AskNameFirst
        /\ Lead(state) = Lead(pre)
        /\ calls = <<>>

\* lead capture was started by a message that holds a name, an address and a
\* platform, with no lead stored
C8_Witness ==
    /\ Ran("lead_capture") /\ Waiting(pre) = None
    /\ Lead(pre) = EmptyLead
    /\ Truthy(ExtractName(request))
    /\ Contains(<<"@">>, request)
    /\ ExtractPlatform(request) = <<"Y","o","u","T","u","b","e">>

\* C9 (scoped extraction): a lead_capture step entered with waiting_for = f
\* changes at most lead_info[f]; the two other fields keep their values.
C9_ScopedExtraction ==
    (Ran("lead_capture") /\ Waiting(pre) \in FieldSet) =>
        \A g \in FieldSet \ {Waiting(pre)} : Lead(state)[g] = Lead(pre)[g]

\* an answer that holds a name, an address and a platform was given while
\* the email was waited for, and only the email changed
C9_Witness ==
    /\ Ran("lead_capture") /\ Waiting(pre) = "email"
    /\ Lead(state)["email"] # Lead(pre)["email"]
    /\ ExtractName(request) # Lead(pre)["name"]
    /\ ExtractPlatform(request) # Lead(pre)["platform"]

\* C10 (history is append-only): the stored messages after a step have the
\* messages before it as a prefix, and after a turn they end with the turn's
\* user message followed by the agent's reply.
C10_AppendOnly ==
    [][LET before == Get(state, "messages", <<>>)
           after == Get(state', "messages", <<>>)
       IN  /\ Len(before) <= Len(after)
           /\ SubSeq(after, 1, Len(before)) = before
           /\ (pc' = "idle" /\ pc # "idle") =>
                 /\ Len(after) >= 2
                 /\ after[Len(after) - 1] = HumanMessage(request)
                 /\ after[Len(after)] = AIMessage(reply'.response)]_vars

\* C11 (session reset): the first turn of a thread after /reset for it starts
\* as the first turn of a new thread does: no intent stored (unknown), no
\* lead field, no field waited for.
C11_ResetStartsFresh ==
    post_reset =>
        /\ Get(pre, "intent", "unknown") = "unknown"
        /\ Lead(pre) = EmptyLead
        /\ Waiting(pre) = None

\* a turn that began with nothing stored for lead capture: the thread has no
\* checkpoint, or one that lacks lead_info and waiting_for
LazyTurn == path # <<>> /\ DOMAIN pre \cap {"lead_info", "waiting_for"} = {}

\* C12 (lazy initialisation): a turn of a thread with no checkpoint, or with
\* lead_info and waiting_for missing from it, runs as from an empty lead and
\* no field waited for: it answers with success, it goes to lead_capture only
\* when the message is classified high_intent, lead_capture then asks for
\* the name over an empty lead, and tool_execution never runs.
C12_LazyInit ==
    LazyTurn =>
        /\ pc # "tool_execution" /\ ~Ran("tool_execution") /\ calls = <<>>
        /\ (pc = "lead_capture" \/ Ran("lead_capture")) =>
              /\ state["intent"] = "high_intent"
              /\ \E llm \in ClassifierLLM : ClassifyMessage(request, llm) = "high_intent"
        /\ TurnDone =>
              /\ reply.status = "success"
              /\ Ran("lead_capture") =>
                    /\ Lead(state) = EmptyLead
                    /\ Waiting(state) = "name"
                    /\ reply.response = AskNameFirst
              /\ ~Ran("lead_capture") =>
                    DOMAIN state \cap {"lead_info", "waiting_for"} = {}

\* the first message of a thread was classified high_intent and started
\* lead capture
C12_Witness == TurnDone /\ pre = <<>> /\ Ran("lead_capture")

\* the model calls the classifier made in the current turn
ClassifierCalls == SelectSeq(outside, LAMBDA c : c.by = "intent_classifier")

HasHighIntentKeyword(text) == AnyIn(high_intent_keywords, Lower(text))

HasInquiryKeyword(text) == AnyIn(inquiry_keywords, Lower(text))

\* C13 (classifier priority): with no field waited for, a message holding a
\* high-intent keyword is classified high_intent whatever else it holds, a
\* message holding an inquiry keyword and no high-intent keyword is
\* classified inquiry whatever greeting it holds, and in both cases the
\* classifier makes no model call.
C13_ClassifierPriority ==
    (Ran("intent_classifier") /\ ~IsSet(Waiting(pre))) =>
        /\ HasHighIntentKeyword(request) =>
              state["intent"] = "high_intent" /\ ClassifierCalls = <<>>
        /\ (~HasHighIntentKeyword(request) /\ HasInquiryKeyword(request)) =>
              state["intent"] = "inquiry" /\ ClassifierCalls = <<>>

\* a greeting, an inquiry keyword and a high-intent keyword in one message
C13_Witness ==
    /\ Ran("intent_classifier")
    /\ ~IsSet(Waiting(pre))
    /\ request = Join(Join(Hello, Pricing), <<"s","i","g","n"," ","u","p">>)
    /\ state["intent"] = "high_intent"

\* no rule of the cascade matches the message
NoRuleMatches(text) ==
    /\ ~HasHighIntentKeyword(text)
    /\ ~HasInquiryKeyword(text)
    /\ ~(AnyIn(greeting_keywords, Lower(text)) /\ Len(Split(Lower(text))) < GreetingMaxWords)

\* the text, trimmed and lower-cased, is one of the four labels
IsLabel(content) == \E l \in ValidIntents : LabelText(l) = Lower(Strip(content))

\* C14 (classifier fallback): the intent stored by the classifier is always
\* one of greeting, inquiry, high_intent, unknown; when no field is waited
\* for and no rule matches, the classifier makes one model call, and if that
\* call raises or returns a text that is none of the four labels, trimmed
\* and lower-cased, the intent is inquiry.
C14_ClassifierFallback ==
    Ran("intent_classifier") =>
        /\ state["intent"] \in ValidIntents
        /\ (~IsSet(Waiting(pre)) /\ NoRuleMatches(request)) =>
              /\ Len(ClassifierCalls) = 1
              /\ (~ClassifierCalls[1].ok \/ ~IsLabel(ClassifierCalls[1].content)) =>
                    state["intent"] = "inquiry"

\* the model answered a message that matches no rule with a word that is no
\* label
C14_Witness ==
    /\ Ran("intent_classifier")
    /\ ~IsSet(Waiting(pre))
    /\ NoRuleMatches(request)
    /\ Len(ClassifierCalls) = 1
    /\ ClassifierCalls[1].ok
    /\ ClassifierCalls[1].content = <<"m","a","y","b","e">>
    /\ state["intent"] = "inquiry"

\* the message holds "pricing" or "how much"
AsksPricing(text) ==
    \/ Contains(<<"p","r","i","c","i","n","g">>, Lower(text))
    \/ Contains(<<"h","o","w"," ","m","u","c","h">>, Lower(text))

Includes(text, token) == \E i \in DOMAIN text : text[i] = token

\* the reply gives the plan's name and its price
GivesPlan(text, plan) == Includes(text, plan.name) /\ Includes(text, plan.price)

\* the reply gives both plans with their prices; the fixed text of
\* _get_fallback_response does, in one piece
GivesBothPlans(text) ==
    \/ text = DefaultFallback
    \/ \A i \in DOMAIN pricing_plans : GivesPlan(text, pricing_plans[i])

FieldOf(st, f) == Get(Get(st, "lead_info", <<>>), f, NoneVal)

\* the line of the reply that asks for a missing field
MissingLine(f) ==
    CASE f = "name" -> "- Your name\n"
      [] f = "email" -> "- Your email address\n"
      [] f = "platform" -> "- Your content platform\n"

\* C17 (defensive precondition): tool_execution entered with a name, an
\* email or a platform that is None, empty or missing makes no
\* mock_lead_capture call, answers with a list that holds the line of a
\* field exactly when that field is absent, leaves lead_info and waiting_for
\* as they were, emits next_action end, and the turn ends.
C17_DefensiveTool ==
    (Ran("tool_execution") /\ \E f \in FieldSet : ~Truthy(FieldOf(pre, f))) =>
        /\ pc = "idle"
        /\ calls = <<>>
        /\ reply.status = "success"
        /\ \A f \in FieldSet :
              Includes(reply.response, MissingLine(f)) <=> ~Truthy(FieldOf(pre, f))
        /\ Len(reply.response) = 2 + Cardinality({f \in FieldSet : ~Truthy(FieldOf(pre, f))})
        /\ \A k \in {"lead_info", "waiting_for"} :
              /\ k \in DOMAIN state <=> k \in DOMAIN pre
              /\ k \in DOMAIN pre => state[k] = pre[k]
        /\ state["next_action"] = "end"

\* tool_execution ran on a lead with a name, an empty email and no platform
C17_Witness ==
    /\ Ran("tool_execution")
    /\ Truthy(FieldOf(pre, "name"))
    /\ FieldOf(pre, "email") = <<>>
    /\ FieldOf(pre, "platform") = NoneVal
    /\ Waiting(pre) = "platform"

\* C18 (session isolation): a step of one thread's turn leaves the
\* checkpoint of every other thread as it was; a turn starts from the
\* checkpoint stored under its own thread_id and the message, and ends with
\* its own result stored under that thread_id.
C18_SessionIsolation ==
    [][/\ \A t \in ThreadIds \ {tid'} :
             LoadCheckpoint(store', t) = LoadCheckpoint(store, t)
       /\ (pc = "idle" /\ pc' # "idle") =>
             /\ pre' = Snapshot(LoadCheckpoint(store, tid'))
             /\ state' = ApplyWrites(LoadCheckpoint(store, tid'),
                                     [messages |-> <<HumanMessage(request')>>])
       /\ (pc # "idle" /\ pc' = "idle") =>
             /\ LoadCheckpoint(store', tid) = state'
             /\ reply' = WebhookResponse(LoadCheckpoint(store', tid))]_vars

\* a turn of the first thread started lead capture while the checkpoint of
\* the second thread waits for an email
C18_Witness ==
    /\ TurnDone
    /\ tid = "t1"
    /\ Waiting(state) = "name"
    /\ Waiting(LoadCheckpoint(store, "t2")) = "email"
    /\ Lead(LoadCheckpoint(store, "t2"))["name"] = <<"b","u","y">>

\* C19 (same-session atomicity): while a turn runs, every step is the next
\* node of that turn: no other call of the webhook starts, for the same
\* thread_id or another, so the turn's load, nodes and saves are contiguous;
\* and a turn that starts loads the checkpoint a finished turn left, never
\* one from the middle of a turn.
C19_TurnsDoNotInterleave ==
    [][/\ pc # "idle" =>
             /\ tid' = tid
             /\ request' = request
             /\ pre' = pre
             /\ path' = Append(path, pc)
             /\ LoadCheckpoint(store', tid) = state'
       /\ (pc = "idle" /\ pc' # "idle") =>
             /\ Get(LoadCheckpoint(store, tid'), "next_action", "end") = "end"
             /\ pre' = Snapshot(LoadCheckpoint(store, tid'))]_vars

\* two messages for one thread_id: the second was answered from the
\* checkpoint the first one left
C19_Witness ==
    /\ TurnDone
    /\ tid = "t2"
    /\ Waiting(pre) = "name"
    /\ Waiting(state) = "email"

\* the four ways through the graph
TurnShapes == {
    <<"intent_classifier", "greeting">>,
    <<"intent_classifier", "rag">>,
    <<"intent_classifier", "lead_capture">>,
    <<"intent_classifier", "lead_capture", "tool_execution">> }

IsPrefix(p, s) == Len(p) <= Len(s) /\ SubSeq(s, 1, Len(p)) = p

Nodes == {"intent_classifier", "greeting", "rag", "lead_capture", "tool_execution"}

\* the node that is next has a step to take: pc names a node of the graph
\* and, for rag, the call has an outcome
CanStep ==
    /\ pc \in Nodes
    /\ pc = "rag" => RagEnvFor(LastContent(state), retriever_instance) # {}

\* C20 (turn termination and hop bound): the nodes run in a turn are the
\* classifier once, then one of greeting, rag and lead_capture, then at most
\* tool_execution, after lead_capture only; a turn under way can always take
\* its next step, so it ends after at most three nodes; the classifier never
\* runs a second time in a turn.
C20_TurnShape ==
    /\ \E s \in TurnShapes : IsPrefix(path, s)
    /\ TurnDone => path \in TurnShapes
    /\ pc # "idle" =>
          /\ \E s \in TurnShapes : IsPrefix(Append(path, pc), s)
          /\ CanStep
    /\ \A i \in DOMAIN path : path[i] = "intent_classifier" => i = 1

\* a turn went through the classifier, lead capture and tool execution
C20_Witness ==
    /\ TurnDone
    /\ path = <<"intent_classifier", "lead_capture", "tool_execution">>

\* every run of tool_execution reached from a webhook call made the
\* mock_lead_capture call and answered with the confirmation: the call has
\* no failing outcome
RegistrationAlwaysConfirms ==
    (TurnDone /\ Ran("tool_execution")) =>
        /\ calls = <<Lead(state)>>
        /\ reply.response = ConfirmReply(Lead(state)["name"], Lead(state)["email"])

(***************************************************************************)
(* Answers to the three questions: a specification that starts where a      *)
(* field is waited for and sends one answer, written the ways users write   *)
(* names, addresses and platforms.                                          *)
(***************************************************************************)
AnswerMessages == {
    <<>>,
    <<" "," ">>,
    <<"m","y"," ","n","a","m","e"," ","i","s">>,
    <<"M","y"," ","n","a","m","e"," ","i","s"," ","J","o">>,
    <<"M","y"," ","N","a","m","e"," ","I","s"," ","J","o">>,
    <<"m","y"," ","n","a","m","e"," ","i","s"," ","J","o"," ","A","n","n"," ">>,
    <<"I","'","m"," ","J","o">>,
    <<"I"," ","a","m"," ","J","o">>,
    <<"i","'","m"," ","j","o">>,
    <<"J","o">>,
    <<" ","J","o"," ","A","n","n"," ">>,
    <<"j","o","@","x",".","i","o">>,
    <<"m","a","i","l"," ","m","e"," ","a","t"," ","j","o","@","x",".","i","o"," ","p","l","e","a","s","e">>,
    <<"Y","o","u","T","u","b","e">>,
    <<"m","y"," ","y","o","u","t","u","b","e"," ","c","h","a","n","n","e","l">>,
    <<"t","i","k","t","o","k"," ","a","n","d"," ","i","n","s","t","a">>,
    <<"W","i","x">>,
    <<"D","r","o","p","b","o","x">>,
    <<"m","y"," ","b","l","o","g">>,
    <<" ","V","i","m","e","o"," ">>,
    <<"X">>,
    <<"l","i","n","k","e","d","i","n">> }

\* the thread after the sign-up, after the name, and after the email
PendingStates == {AfterTurns(SubSeq(CaptureScript, 1, n)) : n \in 1..3}

CaptureInit ==
    /\ state \in PendingStates
    /\ store = [t \in {MainThread} |-> state]
    /\ tid = MainThread
    /\ pc = "idle"
    /\ retriever_instance = FALSE
    /\ reply = NoResponse
    /\ request = <<>>
    /\ pre = <<>>
    /\ path = <<>>
    /\ calls = <<>>
    /\ outside = <<>>
    /\ stage = "off"
    /\ resets = {}
    /\ post_reset = FALSE

CaptureNext ==
    \/ \E m \in AnswerMessages : FirstWebhook(m)
    \/ IntentClassifier
    \/ LeadCapture
    \/ ToolExecution

CaptureSpec == CaptureInit /\ [][CaptureNext]_vars

(***************************************************************************)
(* Turns that fail: a node raises outside its own try blocks (each of      *)
(* rag_node, lead_capture_node and tool_execution_node starts with print   *)
(* calls that no try encloses, and a write to stdout can fail), or a       *)
(* statement inside the try block of tool_execution_node raises.           *)
(***************************************************************************)
Exceptions == { <<"[Errno 11] write could not complete without blocking">> }

\* the nodes with statements outside any try block
RaisingNodes == {"rag", "lead_capture", "tool_execution"}

TechnicalIssueReply(e) ==
    <<"I'm sorry, there was a technical issue. Please try again later. Error: ">> \o e

\* tool_execution_node when its try block raises e
tool_execution_node_except(st, e) ==
    [messages |-> <<AIMessage(TechnicalIssueReply(e))>>, next_action |-> "end"]

\* the node raises: agent_graph.invoke raises with the checkpoint of the last
\* completed step in place, and the except clause of the webhook answers
NodeRaises ==
    /\ pc \in RaisingNodes
    /\ \E e \in Exceptions : reply' = ErrorResponse(e)
    /\ pc' = "idle"
    /\ stage' = IF tid = MainThread THEN "off" ELSE stage
    /\ UNCHANGED <<store, tid, state, retriever_instance, request, pre, path, calls,
                    outside, resets, post_reset>>

\* the try block of tool_execution_node raises, before the call of
\* mock_lead_capture or after it: the node still returns
ToolExecutionRaises ==
    /\ pc = "tool_execution"
    /\ ToolCalls(state)
    /\ \E e \in Exceptions : Advance("tool_execution", tool_execution_node_except(state, e))
    /\ \/ calls' = calls
       \/ calls' = Append(calls, ToolArgs(state))
    /\ UNCHANGED <<tid, retriever_instance, request, pre, outside, resets, post_reset>>

FaultNext ==
    \/ \E m \in ServerMessages : Webhook(MainThread, m)
    \/ IntentClassifier
    \/ Greeting
    \/ Rag
    \/ LeadCapture
    \/ ToolExecution
    \/ NodeRaises
    \/ ToolExecutionRaises

FaultSpec == Init /\ [][FaultNext]_vars

\* the turn ended in the except clause of the webhook
TurnFailed == pc = "idle" /\ "status_code" \in DOMAIN reply

\* every text the caller is sent
Visible(r) ==
    (IF "response" \in DOMAIN r THEN r.response ELSE <<>>)
    \o (IF "detail" \in DOMAIN r THEN r.detail ELSE <<>>)

Leaks(r) == \E e \in Exceptions : \E i \in DOMAIN e : Includes(Visible(r), e[i])

\* C21 (internal errors at the inbound interface): when processing a turn
\* raises, the caller is answered with status "error" and an apology, and no
\* answer of any turn shows text of the exception
C21_SafeError ==
    /\ TurnFailed => "status" \in DOMAIN reply /\ reply.status = "error"
    /\ pc = "idle" => ~Leaks(reply)

\* the channel is absent from both states or holds the same value in both
Same(a, b, k) ==
    /\ (k \in DOMAIN a) = (k \in DOMAIN b)
    /\ k \in DOMAIN a /\ k \in DOMAIN b => a[k] = b[k]

\* what the MemorySaver holds for the thread of the turn
Persisted == LoadCheckpoint(store, tid)

\* C22 (all-or-nothing turn): after a turn that failed, the persisted lead
\* and pending field are the values from before the turn
C22_AllOrNothing ==
    TurnFailed =>
        /\ Same(Persisted, pre, "lead_info")
        /\ Same(Persisted, pre, "waiting_for")

\* the node that ran last in the turn
LastNode == IF path = <<>> THEN "none" ELSE path[Len(path)]

TurnCompleted == TurnDone /\ ~TurnFailed

C24_SingleWriter ==
    /\ [][ /\ ~Same(state', state, "lead_info") => pc = "lead_capture"
           /\ ~Same(state', state, "waiting_for") => pc = "lead_capture"
           /\ ~Same(state', state, "intent") => pc = "intent_classifier"
         ]_vars
    /\ [](TurnDone /\ pre = <<>> /\ ~Ran("lead_capture") =>
            /\ "waiting_for" \notin DOMAIN Persisted
            /\ "lead_info" \notin DOMAIN Persisted)

\* a registration made: tool_execution ran on the lead that lead_capture
\* completed in the same turn
C24_Witness ==
    /\ TurnCompleted
    /\ LastNode = "tool_execution"
    /\ AllPresent(Lead(Persisted))
    /\ ~Same(Persisted, pre, "lead_info")

\* C25 (router totality): on every state, a missing or unrecognised intent
\* or next_action included, route_by_intent returns a key of the classifier's
\* edge map and route_next_action returns "tool_execution" for
\* "execute_tool", "router" (the edge to intent_classifier) for "route" and
\* "end" for every other value
C25_RouterTotality ==
    pc # "probe" =>
        IF path = <<>>
        THEN pc \in DOMAIN Edges("intent_classifier")
        ELSE LET next_action == Get(state, "next_action", Missing)
             IN  /\ pc \in DOMAIN Edges("lead_capture")
                 /\ next_action = "execute_tool" => Edges("lead_capture")[pc] = "tool_execution"
                 /\ next_action = "route" => Edges("lead_capture")[pc] = "intent_classifier"
                 /\ next_action \notin {"execute_tool", "route"} => Edges("lead_capture")[pc] = END

\* route_next_action was applied to a next_action it does not know
C25_Witness ==
    /\ path = <<"route_next_action">>
    /\ Get(state, "next_action", Missing) = "other"
    /\ pc = "end"

\* the calls rag_node made of the language model in this turn
RagModelCalls == {i \in DOMAIN outside : outside[i].by = "rag" /\ outside[i].call = "llm"}

\* C26 (the pricing fast path bypasses the model): a turn answered by rag_node
\* whose message holds a pricing keyword makes no call of the language
\* model from rag_node, whatever get_retriever does
C26_FastPathBypassesModel ==
    (Ran("rag") /\ AnyIn(pricing_keywords, Lower(request))) => RagModelCalls = {}

\* the outside calls rag_node made in this turn
RagLog == SelectSeq(outside, LAMBDA c : c.by = "rag")

LastOf(log, call) ==
    LET at == {i \in DOMAIN log : log[i].call = call}
    IN  IF at = {} THEN 0 ELSE CHOOSE i \in at : \A j \in at : j <= i

\* the fast path answered: the retriever was obtained and the knowledge base
\* read, nothing else
FastPathAnswered ==
    /\ Len(RagLog) = 2
    /\ RagLog[1].call = "get_retriever" /\ RagLog[1].ok
    /\ RagLog[2].call = "knowledge_base"

\* on the model path the retrieval raised, the model call raised, or the
\* model's reply is empty or too short once trimmed
GenerationFailed ==
    LET r == LastOf(RagLog, "get_retriever")
        c == LastOf(RagLog, "get_context")
        l == LastOf(RagLog, "llm")
    IN  \/ r # 0 /\ ~RagLog[r].ok
        \/ c # 0 /\ ~RagLog[c].ok
        \/ l # 0 /\ ~RagLog[l].ok
        \/ l # 0 /\ Len(Strip(RagLog[l].content)) < MinReplyLen

\* C27 (generation fallback): a turn answered by rag_node on the model path
\* ends with a non-empty reply, next_action "end" and status "success"; when
\* the retrieval or the model call raised, or the model's reply is empty or
\* shorter than 20 characters trimmed, the reply is what
\* _get_fallback_response gives for the message
C27_GenerationFallback ==
    (TurnDone /\ LastNode = "rag" /\ ~FastPathAnswered) =>
        /\ reply.response # <<>>
        /\ reply.status = "success"
        /\ Get(state, "next_action", Missing) = "end"
        /\ GenerationFailed =>
              LET k == LastOf(RagLog, "knowledge_base")
              IN  /\ k = Len(RagLog)
                  /\ reply.response = _get_fallback_response(request, RagLog[k].ok)

\* the model answered with 19 characters and the fallback was sent instead
C27_Witness ==
    /\ TurnDone /\ LastNode = "rag" /\ ~FastPathAnswered
    /\ LET l == LastOf(RagLog, "llm")
       IN  l # 0 /\ RagLog[l].ok /\ Len(Strip(RagLog[l].content)) = MinReplyLen - 1
    /\ reply.response = _get_fallback_response(request, TRUE)

\* s.lower().split(sep)[-1], cut out of s itself
RECURSIVE AfterMarker(_, _)
AfterMarker(s, marker) ==
    LET i == Find(marker, Lower(s))
    IN  IF i = 0 THEN s ELSE AfterMarker(SubSeq(s, i + Len(marker), Len(s)), marker)

\* s without the marker in any letter case, the rest as written
RECURSIVE WithoutMarker(_, _)
WithoutMarker(s, marker) ==
    LET i == Find(marker, Lower(s))
    IN  IF i = 0 THEN s
        ELSE SubSeq(s, 1, i - 1) \o WithoutMarker(SubSeq(s, i + Len(marker), Len(s)), marker)

Im == <<"i","'","m">>

Iam == <<"i"," ","a","m">>

\* the name the three rules give for an answer
NameOf(text) ==
    IF Contains(NameIs, Lower(text)) THEN Strip(AfterMarker(text, NameIs))
    ELSE IF Contains(Im, Lower(text)) \/ Contains(Iam, Lower(text))
         THEN Strip(WithoutMarker(WithoutMarker(text, Im), Iam))
    ELSE Strip(text)

\* lead_capture_node has taken the answer to the question for field f
Answered(f) == Waiting(pre) = f /\ Ran("lead_capture")

\* C28 (name extraction): while the name is waited for, the name taken from
\* an answer is the trimmed text after "name is" in any letter case, else the
\* answer without "I'm" or "I am" and otherwise as written, else the whole
\* trimmed answer
C28_NameExtraction ==
    Answered("name") => Lead(state)["name"] = NameOf(request)

\* the canonical names of platform_map
ListedPlatforms == {platform_map[i][2] : i \in DOMAIN platform_map}

\* the answer names a listed platform: one of its words is "x", or holds
\* another key of platform_map
NamesListedPlatform(text) ==
    LET words == Split(Lower(text))
    IN  \E w \in DOMAIN words : \E i \in DOMAIN platform_map :
            IF platform_map[i][1] = <<"x">> THEN words[w] = <<"x">>
            ELSE Contains(platform_map[i][1], words[w])

\* C29 (platform extraction): while the platform is waited for, the value
\* taken from an answer is the canonical name of the first entry of
\* platform_map, in its order, whose key is in the lower-cased answer, the
\* trimmed and capitalized answer when there is none, and never a listed
\* platform for an answer that names none
C29_PlatformExtraction ==
    Answered("platform") =>
        LET text_lower == Lower(request)
            hits == {i \in DOMAIN platform_map : Contains(platform_map[i][1], text_lower)}
            value == Lead(state)["platform"]
        IN  /\ hits # {} => \E i \in hits :
                                /\ \A j \in hits : i <= j
                                /\ value = platform_map[i][2]
            /\ hits = {} => value = Capitalize(Strip(request))
            /\ ~NamesListedPlatform(request) => value \notin ListedPlatforms

(***************************************************************************)
(* Calls of the language model that never return: llm is built without a   *)
(* timeout and llm.invoke is called without one, so a call may block, and   *)
(* the node blocks with it.  The nodes themselves run whenever they can.    *)
(***************************************************************************)
HangMessages == ServerMessages \cup { <<"o","k">> }

\* llm.invoke does not return: the node never does either
ModelCallBlocks ==
    /\ \/ pc = "intent_classifier" /\ ClassifierUsesLLM(state)
       \/ /\ pc = "rag"
          /\ \E e \in RagEnvFor(LastContent(state), retriever_instance) :
                RagInvokesLLM(LastContent(state), retriever_instance, e)
    /\ pc' = "blocked"
    /\ UNCHANGED <<store, tid, state, retriever_instance, reply, request, pre, path,
                    calls, outside, stage, resets, post_reset>>

NodeStep ==
    \/ IntentClassifier
    \/ Greeting
    \/ Rag
    \/ LeadCapture
    \/ ToolExecution

HangNext ==
    \/ \E m \in HangMessages : Webhook(MainThread, m)
    \/ IntentClassifier
    \/ Greeting
    \/ Rag
    \/ LeadCapture
    \/ ToolExecution
    \/ ModelCallBlocks

HangSpec == Init /\ [][HangNext]_vars /\ WF_vars(NodeStep)

\* C30 (no hanging turn): every turn that was submitted ends with a reply,
\* also when a call of the language model never returns
C30_NoHangingTurn == (pc # "idle") ~> (pc = "idle")

(***************************************************************************)
(* The turn after a registration that failed: a specification that starts  *)
(* from the checkpoint tool_execution_node leaves on its except path and    *)
(* sends one message.                                                       *)
(***************************************************************************)
\* the capture script run to its last answer, the registration raising e:
\* the except path writes the channels the other paths write, so the
\* checkpoint is that of the script with the apology as the message
FailedRegistration(e) ==
    LET done == AfterTurns(CaptureScript)
    IN  ApplyWrites(done, tool_execution_node_except(done, e))

RetryInit ==
    /\ state \in {FailedRegistration(e) : e \in Exceptions}
    /\ store = [t \in {MainThread} |-> state]
    /\ tid = MainThread
    /\ pc = "idle"
    /\ retriever_instance \in BOOLEAN
    /\ reply = NoResponse
    /\ request = <<>>
    /\ pre = <<>>
    /\ path = <<>>
    /\ calls = <<>>
    /\ outside = <<>>
    /\ stage = "off"
    /\ resets = {}
    /\ post_reset = FALSE

RetryNext ==
    \/ \E m \in ProbeMessages : FirstWebhook(m)
    \/ IntentClassifier
    \/ Greeting
    \/ Rag
    \/ LeadCapture

RetrySpec == RetryInit /\ [][RetryNext]_vars

\* C16 (retry after tool failure): after a registration that raised, the
\* three lead fields are kept, and a message that asks to sign up again
\* reaches tool_execution without a question for a field that is present
C16_RetryAfterFailure ==
    (TurnDone /\ HasHighIntentKeyword(request)) =>
        /\ AllPresent(Lead(pre))
        /\ Ran("tool_execution")
        /\ reply.response \notin {AskNameFirst, AskName, AskPlatform}

\* C31 (pending implies high intent): between turns, a thread whose
\* checkpoint waits for a field holds intent high_intent, and every answer of
\* a turn that began or ended waiting for a field reports high_intent
C31_PendingImpliesHighIntent ==
    /\ pc = "idle" =>
          \A t \in DOMAIN store :
              IsSet(Waiting(store[t])) => Get(store[t], "intent", Missing) = "high_intent"
    /\ (TurnDone /\ (IsSet(Waiting(pre)) \/ IsSet(Waiting(state)))) =>
          reply.intent = "high_intent"

\* a pricing question was sent while the agent waited for the name
C31_Witness ==
    /\ TurnDone
    /\ Waiting(pre) = "name"
    /\ request = <<"p","r","i","c","e">>
    /\ IsSet(Waiting(state))
    /\ reply.intent = "high_intent"

\* C32 (routing safety): the key the conditional edge computes after a node
\* is a key of that node's edge map, so no turn ends in a routing error; only
\* lead_capture leaves next_action = "execute_tool"
C32_RoutingSafety ==
    /\ TurnFailed => \E e \in Exceptions : reply = ErrorResponse(e)
    /\ path # <<>> => EdgeKey(LastNode, state) \in DOMAIN Edges(LastNode)
    /\ LastNode \in {"greeting", "rag", "tool_execution"} =>
          Get(state, "next_action", Missing) # "execute_tool"

\* lead_capture has just left execute_tool and the edge led to tool_execution
C32_Witness ==
    /\ pc = "tool_execution"
    /\ LastNode = "lead_capture"
    /\ Get(state, "next_action", Missing) = "execute_tool"
    /\ Edges("lead_capture")[EdgeKey("lead_capture", state)] = "tool_execution"

\* the agent messages in the messages channel
AgentMessages(st) == SelectSeq(Get(st, "messages", <<>>), LAMBDA m : m.type = "ai")

\* C33 (reply freshness): while the turn is on its way to the node that
\* answers, the state holds no agent message; when the turn has ended it
\* holds exactly one, written by the node that ran last, and that message,
\* never the webhook's default, is the reply
C33_ReplyFreshness ==
    /\ pc \in Nodes => AgentMessages(state) = <<>>
    /\ TurnCompleted =>
          /\ LastNode \in {"greeting", "rag", "lead_capture", "tool_execution"}
          /\ Len(AgentMessages(state)) = 1
          /\ reply.response = AgentMessages(state)[1].content
          /\ reply.response # DidNotUnderstand

\* a registration answered in the turn of the last answer, where lead_capture
\* wrote no message of its own
C33_Witness ==
    /\ TurnCompleted
    /\ Waiting(pre) = "platform"
    /\ LastNode = "tool_execution"
    /\ Len(AgentMessages(state)) = 1
    /\ reply.response = AgentMessages(state)[1].content

\* how often the node ran in the turn
TimesRan(node) == Cardinality({i \in DOMAIN path : path[i] = node})

\* C34 (side-effect bound): a turn calls mock_lead_capture at most once, only
\* in tool_execution, with the name, email and platform the thread's lead
\* holds
C34_SideEffectBound ==
    /\ Len(calls) <= 1
    /\ TimesRan("tool_execution") <= 1
    /\ calls # <<>> =>
          /\ LastNode = "tool_execution"
          /\ calls[1] = [f \in FieldSet |-> Lead(state)[f]]
          /\ calls[1] = [f \in FieldSet |-> Lead(Persisted)[f]]

\* the call of a registration whose try block raised after it
C34_Witness ==
    /\ TurnCompleted
    /\ Len(calls) = 1
    /\ \E e \in Exceptions : reply.response = TechnicalIssueReply(e)
    /\ calls[1] = [f \in FieldSet |-> Lead(Persisted)[f]]

\* C35 (capture exit): a turn that began waiting for a field goes through
\* lead_capture whatever the message, and ends waiting for a field unless
\* lead_capture found the three fields present and handed over to
\* tool_execution in that turn
C35_CaptureExit ==
    (TurnDone /\ IsSet(Waiting(pre))) =>
        /\ Ran("lead_capture")
        /\ Ran("tool_execution") <=> ~IsSet(Waiting(Persisted))
        /\ IsSet(Waiting(Persisted)) => Waiting(Persisted) \in FieldSet
        /\ ~IsSet(Waiting(Persisted)) => AllPresent(Lead(Persisted)) /\ calls # <<>>

\* a blank answer to the question for the email left the agent waiting for it
C35_Witness ==
    /\ TurnDone
    /\ Waiting(pre) = "email"
    /\ request = <<" ">>
    /\ Waiting(Persisted) = "email"
    /\ ~Ran("tool_execution")

\* the turn began waiting for field f, which the lead did not hold, and the
\* message gave no value for it
EmptyAnswer(f) ==
    /\ Answered(f)
    /\ ~Truthy(Lead(pre)[f])
    /\ ~Extracted(pre, request)

\* C36 (empty answers): when the answer to the question for a field the lead
\* does not hold yet gives an empty value, the field stays empty, the agent
\* keeps waiting for it and asks for it again, tool_execution does not run
\* and the other fields are as before
C36_EmptyAnswer ==
    \A f \in FieldSet :
        (TurnDone /\ EmptyAnswer(f)) =>
            /\ ~Truthy(Lead(Persisted)[f])
            /\ Waiting(Persisted) = f
            /\ reply.response = Question(Lead(pre), f)
            /\ ~Ran("tool_execution") /\ calls = <<>>
            /\ \A g \in FieldSet \ {f} : Lead(Persisted)[g] = Lead(pre)[g]

\* "my name is" with nothing after it, sent while the name is waited for
C36_Witness ==
    /\ TurnDone
    /\ EmptyAnswer("name")
    /\ request = <<"m","y"," ","n","a","m","e"," ","i","s">>
    /\ reply.response = AskName

====
